---- MODULE Spec2Model ----
(***************************************************************************)
(* A model of the recipe API: the user store (core/models.py), the recipe, *)
(* tag and ingredient stores with their two join tables, the owner-scoped  *)
(* viewsets of recipe/views.py, and the nested recipe write pipeline of    *)
(* the recipe serializer.  One action is one HTTP request (or one call of  *)
(* the user manager), handled from authentication to the response.         *)
(***************************************************************************)
EXTENDS Integers, Sequences, FiniteSets, TLC

VARIABLES
    users,               \* table core_user: set of rows
    recipes,             \* table core_recipe: set of rows
    tags,                \* table core_tag: set of rows
    ingredients,         \* table core_ingredient: set of rows
    recipe_tags,         \* join table of Recipe.tags: set of <<recipe id, tag id>>
    recipe_ingredients,  \* join table of Recipe.ingredients
    nextId,              \* the auto-increment counters of the four tables
    writes,              \* the number of requests that have changed the store
    last,                \* the response on its way to the client, with its request
    inflight             \* per user, the request the server is working on

vars ==
    <<users, recipes, tags, ingredients, recipe_tags, recipe_ingredients, nextId,
      writes, last, inflight>>

-----------------------------------------------------------------------------
(* Bounds of the model. *)

\* the requests of one behaviour that change the store
MaxWrites == 3

-----------------------------------------------------------------------------
(* Values. *)

\* request.user of a request that carries no valid token
Anonymous == 0

\* the two accounts of the recipe specifications
UserIds == {1, 2}
Callers == {Anonymous} \cup UserIds

ScalarFields == {"title", "description", "duration", "price", "link"}
\* fields of Recipe declared without blank=True: required by the serializer
RequiredFields == {"title", "duration", "price"}
RelationFields == {"tags", "ingredients"}

Names == {"a", "b"}

HTTP_200_OK == 200
HTTP_201_CREATED == 201
HTTP_204_NO_CONTENT == 204
HTTP_400_BAD_REQUEST == 400
HTTP_401_UNAUTHORIZED == 401
HTTP_404_NOT_FOUND == 404
HTTP_405_METHOD_NOT_ALLOWED == 405
HTTP_500_INTERNAL_SERVER_ERROR == 500

-----------------------------------------------------------------------------
(* The relational store as one value, so that a handler is a function from *)
(* the store before the request to the store after it.                     *)

Store ==
    [recipes |-> recipes, tags |-> tags, ingredients |-> ingredients,
     recipe_tags |-> recipe_tags, recipe_ingredients |-> recipe_ingredients,
     nextId |-> nextId]

SetStore(s) ==
    /\ recipes' = s.recipes
    /\ tags' = s.tags
    /\ ingredients' = s.ingredients
    /\ recipe_tags' = s.recipe_tags
    /\ recipe_ingredients' = s.recipe_ingredients
    /\ nextId' = s.nextId

\* the rows and the join table of a recipe attribute ("tag" or "ingredient")
AttrRows(s, kind) == IF kind = "tag" THEN s.tags ELSE s.ingredients
AttrLinks(s, kind) == IF kind = "tag" THEN s.recipe_tags ELSE s.recipe_ingredients
AttrNext(s, kind) == IF kind = "tag" THEN s.nextId.tag ELSE s.nextId.ingredient

WithAttr(s, kind, rows, links, nxt) ==
    IF kind = "tag"
    THEN [s EXCEPT !.tags = rows, !.recipe_tags = links, !.nextId.tag = nxt]
    ELSE [s EXCEPT !.ingredients = rows, !.recipe_ingredients = links,
                   !.nextId.ingredient = nxt]

\* class Recipe: a row of core_recipe
RecipeRow(id, user, p) ==
    [id |-> id, user |-> user,
     title |-> p.title,
     description |-> IF "description" \in p.has THEN p.description ELSE "",
     duration |-> p.duration,
     price |-> p.price,
     link |-> IF "link" \in p.has THEN p.link ELSE ""]

\* class Tag, class Ingredient: a row of core_tag or core_ingredient
AttrRow(id, name, user) == [id |-> id, name |-> name, user |-> user]

-----------------------------------------------------------------------------
(* Request payloads.  has is the set of keys the payload carries; a key    *)
(* outside has holds a filler that no handler reads.                       *)

Pay(has, v, tg, ing, u) ==
    [has |-> has, title |-> v, description |-> v, duration |-> v, price |-> v,
     link |-> v, name |-> v, tags |-> tg, ingredients |-> ing, user |-> u]

\* what the payload supplies for a relation, <<>> when the key is omitted
Embedded(p, kind) ==
    IF kind = "tag"
    THEN (IF "tags" \in p.has THEN p.tags ELSE <<>>)
    ELSE (IF "ingredients" \in p.has THEN p.ingredients ELSE <<>>)

Supplies(p, kind) ==
    IF kind = "tag" THEN "tags" \in p.has ELSE "ingredients" \in p.has

SeqRange(q) == {q[i] : i \in 1..Len(q)}

-----------------------------------------------------------------------------
(* The viewsets' querysets. *)

\* get_queryset without its filter(user=self.request.user)
RecipeQuerysetAll(s, caller) == s.recipes

\* RecipeViewSet.get_queryset, without its order_by
RecipeQueryset(s, caller) == {r \in s.recipes : r.user = caller}

\* BaseRecipeAttrViewSet.get_queryset (ingredients), without its order_by
BaseAttrQueryset(s, caller) == {r \in s.ingredients : r.user = caller}

\* TagViewSet.get_queryset without its filter(user=self.request.user)
TagQuerysetAll(s, caller) == s.tags

\* TagViewSet.get_queryset, without its order_by
TagQueryset(s, caller) == {r \in s.tags : r.user = caller}

AttrQueryset(s, kind, caller) ==
    IF kind = "tag" THEN TagQueryset(s, caller) ELSE BaseAttrQueryset(s, caller)

\* the actions a viewset has, which are the ones the router binds
RecipeViewSetActions ==
    {"list", "create", "retrieve", "update", "partial_update", "destroy"}

\* the viewset with CreateModelMixin among its bases
AttrViewSetActionsWithCreate == {"create", "destroy", "update", "partial_update", "list"}

\* the mixins of BaseRecipeAttrViewSet: destroy, update, list
BaseRecipeAttrViewSetActions == {"destroy", "update", "partial_update", "list"}

\* permission_classes left at AllowAny
AllowAny(caller) == TRUE

\* permission_classes = [IsAuthenticated], with TokenAuthentication
IsAuthenticated(caller) == caller # Anonymous

-----------------------------------------------------------------------------
(* The recipe serializer: validation and the nested write pipeline.        *)

\* Meta.fields of the recipe serializer: the keys of a payload it reads
ValidatedData(p) == [p EXCEPT !.has = @ \cap (ScalarFields \cup RelationFields)]

\* serializer.is_valid: the required scalar fields (all of them unless the
\* update is partial), no blank required value, no blank embedded name
IsValidRecipe(p, partial) ==
    /\ partial \/ RequiredFields \subseteq p.has
    /\ \A f \in RequiredFields \cap p.has : p[f] # ""
    /\ \A kind \in {"tag", "ingredient"} :
          \A i \in 1..Len(Embedded(p, kind)) : Embedded(p, kind)[i] # ""

\* the pipeline with create(...) in place of get_or_create(...)
RECURSIVE AlwaysCreateAll(_, _, _, _, _, _)
AlwaysCreateAll(names, rows, links, nxt, rid, auth_user) ==
    IF names = <<>>
    THEN [ok |-> TRUE, rows |-> rows, links |-> links, next |-> nxt]
    ELSE AlwaysCreateAll(Tail(names),
                         rows \cup {AttrRow(nxt, Head(names), auth_user)},
                         links \cup {<<rid, nxt>>}, nxt + 1, rid, auth_user)

\* get_or_create(user=auth_user, name=...) then recipe.<relation>.add(...), for
\* each embedded object in turn.  A lookup that matches several rows raises
\* MultipleObjectsReturned: ok is FALSE and rows, links and next are what had
\* been written when it was raised.
RECURSIVE GetOrCreateAll(_, _, _, _, _, _)
GetOrCreateAll(names, rows, links, nxt, rid, auth_user) ==
    IF names = <<>>
    THEN [ok |-> TRUE, rows |-> rows, links |-> links, next |-> nxt]
    ELSE LET matches == {r \in rows : r.name = Head(names) /\ r.user = auth_user}
         IN  IF Cardinality(matches) > 1
             THEN [ok |-> FALSE, rows |-> rows, links |-> links, next |-> nxt]
             ELSE IF matches = {}
             THEN GetOrCreateAll(Tail(names),
                                 rows \cup {AttrRow(nxt, Head(names), auth_user)},
                                 links \cup {<<rid, nxt>>}, nxt + 1, rid, auth_user)
             ELSE GetOrCreateAll(Tail(names), rows,
                                 links \cup {<<rid, (CHOOSE r \in matches : TRUE).id>>},
                                 nxt, rid, auth_user)

\* the pipeline of one relation of recipe rid, on store s
Resolve(s, kind, names, rid, auth_user) ==
    LET r == GetOrCreateAll(names, AttrRows(s, kind), AttrLinks(s, kind),
                            AttrNext(s, kind), rid, auth_user)
    IN  [ok |-> r.ok, store |-> WithAttr(s, kind, r.rows, r.links, r.next)]

\* serializer.create: the recipe row, then its tags, then its ingredients
SerializerCreate(s, p, owner, auth_user) ==
    LET rid == s.nextId.recipe
        s1 == [s EXCEPT !.recipes = @ \cup {RecipeRow(rid, owner, p)},
                        !.nextId.recipe = rid + 1]
        t == Resolve(s1, "tag", Embedded(p, "tag"), rid, auth_user)
    IN  IF t.ok
        THEN Resolve(t.store, "ingredient", Embedded(p, "ingredient"), rid, auth_user)
        ELSE t

\* an update that adds the supplied objects without clear()
RelinkWithoutClear(s, kind, p, rid, auth_user) ==
    IF Supplies(p, kind)
    THEN Resolve(s, kind, Embedded(p, kind), rid, auth_user)
    ELSE [ok |-> TRUE, store |-> s]

\* an update that takes an omitted relation for an empty list
RelinkOmittedAsEmpty(s, kind, p, rid, auth_user) ==
    Resolve(WithAttr(s, kind, AttrRows(s, kind),
                     {l \in AttrLinks(s, kind) : l[1] # rid}, AttrNext(s, kind)),
            kind, Embedded(p, kind), rid, auth_user)

\* a supplied relation replaces the recipe's links: clear(), then the pipeline
Relink(s, kind, p, rid, auth_user) ==
    IF Supplies(p, kind)
    THEN Resolve(WithAttr(s, kind, AttrRows(s, kind),
                          {l \in AttrLinks(s, kind) : l[1] # rid}, AttrNext(s, kind)),
                 kind, Embedded(p, kind), rid, auth_user)
    ELSE [ok |-> TRUE, store |-> s]

\* setattr(instance, attr, value) for each validated attribute
SetAttrs(row, p) ==
    [f \in DOMAIN row |->
        IF f \in p.has /\ f \in ScalarFields \cup {"user"} THEN p[f] ELSE row[f]]

\* serializer.update: the supplied relations, then the supplied scalars
SerializerUpdate(s, row, p, auth_user) ==
    LET t == Relink(s, "tag", p, row.id, auth_user)
        i == IF t.ok THEN Relink(t.store, "ingredient", p, row.id, auth_user) ELSE t
    IN  IF i.ok
        THEN [ok |-> TRUE,
              store |-> [i.store EXCEPT
                            !.recipes = (@ \ {row}) \cup {SetAttrs(row, p)}]]
        ELSE i

\* a write outside any transaction: what was written stays written
TransactionNone(before, res) == res.store

\* a write that touches several rows commits all of them or none
Transaction(before, res) == IF res.ok THEN res.store ELSE before

\* perform_create that lets the payload name the owner
perform_create_payload_user(s, p, caller) ==
    SerializerCreate(s, ValidatedData(p),
                     IF "user" \in p.has THEN p.user ELSE caller, caller)

\* RecipeViewSet.perform_create: serializer.save(user=self.request.user)
perform_create(s, p, caller) == SerializerCreate(s, ValidatedData(p), caller, caller)

\* UpdateModelMixin.perform_update: serializer.save()
perform_update(s, row, p, caller) == SerializerUpdate(s, row, ValidatedData(p), caller)

\* instance.delete() of a recipe: the row and its rows of the join tables
DeleteRecipe(s, row) ==
    [s EXCEPT !.recipes = @ \ {row},
              !.recipe_tags = {l \in @ : l[1] # row.id},
              !.recipe_ingredients = {l \in @ : l[1] # row.id}]

\* a delete that leaves the rows of the join table
DeleteAttrRowOnly(s, kind, row) ==
    WithAttr(s, kind, AttrRows(s, kind) \ {row}, AttrLinks(s, kind), AttrNext(s, kind))

\* instance.delete() of a tag or an ingredient: the row and its join rows
DeleteAttr(s, kind, row) ==
    WithAttr(s, kind, AttrRows(s, kind) \ {row},
             {l \in AttrLinks(s, kind) : l[2] # row.id}, AttrNext(s, kind))

-----------------------------------------------------------------------------
(* The user store: core/models.py.  An email is a sequence of characters,  *)
(* a password a record that says whether one was given (None otherwise).   *)

NoPassword == [given |-> FALSE, chars |-> <<>>]
Pw(chars) == [given |-> TRUE, chars |-> chars]

ShortPassword == Pw(<<"p", "w">>)
GoodPassword == Pw(<<"p", "a", "s", "s", "1">>)
OtherPassword == Pw(<<"p", "a", "s", "s", "2">>)

EmptyEmail == <<>>
Emails == {EmptyEmail, <<"a", "@", "x">>, <<"a", "@", "X">>, <<"A", "@", "x">>}

\* str.lower on one character
Lower(c) == IF c = "A" THEN "a" ELSE IF c = "X" THEN "x" ELSE c

\* the position of the last "@" of an email, 0 when it has none
LastAt(email) ==
    LET at == {i \in 1..Len(email) : email[i] = "@"}
    IN  IF at = {} THEN 0 ELSE CHOOSE i \in at : \A j \in at : j <= i

\* BaseUserManager.normalize_email: the domain part in lower case
normalize_email(email) ==
    IF LastAt(email) = 0 THEN email
    ELSE [i \in 1..Len(email) |->
             IF i > LastAt(email) THEN Lower(email[i]) ELSE email[i]]

\* AbstractBaseUser.set_password: the hash of the password, or an unusable
\* password when None is given
make_password(password) ==
    IF password.given THEN <<"hash", password.chars>> ELSE <<"!", <<>>>>

\* AbstractBaseUser.check_password
check_password(password, encoded) ==
    password.given /\ encoded = <<"hash", password.chars>>

\* User.email declared without unique=True
EmailNotUnique == FALSE

\* User.email is declared unique=True
EmailUnique == TRUE

\* class User: a row of core_user
UserRow(id, email, password, name) ==
    [id |-> id, email |-> email, password |-> make_password(password),
     name |-> name, is_active |-> TRUE, is_staff |-> FALSE, is_superuser |-> FALSE]

\* user.save(): the insert, refused by the unique index on email
SaveUser(U, row) ==
    IF EmailUnique /\ \E u \in U : u.email = row.email /\ u.id # row.id
    THEN [ok |-> FALSE, error |-> "IntegrityError", users |-> U]
    ELSE [ok |-> TRUE, error |-> "",
          users |-> {u \in U : u.id # row.id} \cup {row}]

\* create_user without the check of the email
create_user_unchecked(U, id, email, password, name) ==
    SaveUser(U, UserRow(id, normalize_email(email), password, name))

\* UserManager.create_user
create_user(U, id, email, password, name) ==
    IF email = EmptyEmail
    THEN [ok |-> FALSE, error |-> "ValueError", users |-> U]
    ELSE SaveUser(U, UserRow(id, normalize_email(email), password, name))

\* UserManager.create_superuser
create_superuser(U, id, email, password) ==
    LET made == create_user(U, id, email, password, "")
    IN  IF made.ok
        THEN SaveUser(made.users,
                      [UserRow(id, normalize_email(email), password, "")
                          EXCEPT !.is_staff = TRUE, !.is_superuser = TRUE])
        ELSE made

-----------------------------------------------------------------------------
(* The handlers of the recipe endpoints: from the store before the request *)
(* to the response and the store after it.  tried is the store the handler *)
(* had written when it ended, committed or not.                            *)

Resp(status, s, body) == [status |-> status, store |-> s, tried |-> s, body |-> body]

\* a set of ids as the sequence order_by("-id") gives
RECURSIVE DescSeq(_)
DescSeq(S) ==
    IF S = {} THEN <<>>
    ELSE LET m == CHOOSE x \in S : \A y \in S : y <= x
         IN  <<m>> \o DescSeq(S \ {m})

\* the collation order of the names of the model
NameRank(n) == CASE n = "a" -> 1 [] n = "b" -> 2 [] OTHER -> 0

\* the sequences of ids order_by("-name") may give: rows of equal name come
\* in an order the database chooses
NameDescOrders(R) ==
    LET ids == {r.id : r \in R}
        rank(i) == NameRank((CHOOSE r \in R : r.id = i).name)
    IN  {q \in [1..Cardinality(ids) -> ids] :
            /\ \A i, j \in DOMAIN q : i # j => q[i] # q[j]
            /\ \A i, j \in DOMAIN q : i < j => rank(q[i]) >= rank(q[j])}

\* GenericAPIView.get_object on the recipe queryset
GetRecipe(s, caller, id) == {r \in RecipeQueryset(s, caller) : r.id = id}

\* GenericAPIView.get_object on a tag or ingredient queryset
GetAttr(s, kind, caller, id) == {r \in AttrQueryset(s, kind, caller) : r.id = id}

\* ListModelMixin.list of RecipeViewSet
HandleRecipeList(s, caller) ==
    IF ~IsAuthenticated(caller) THEN Resp(HTTP_401_UNAUTHORIZED, s, <<>>)
    ELSE Resp(HTTP_200_OK, s, DescSeq({r.id : r \in RecipeQueryset(s, caller)}))

\* CreateModelMixin.create of RecipeViewSet
HandleRecipeCreate(s, caller, p) ==
    IF ~IsAuthenticated(caller) THEN Resp(HTTP_401_UNAUTHORIZED, s, <<>>)
    ELSE IF ~IsValidRecipe(p, FALSE) THEN Resp(HTTP_400_BAD_REQUEST, s, <<>>)
    ELSE LET res == perform_create(s, p, caller)
         IN  [status |-> IF res.ok THEN HTTP_201_CREATED
                         ELSE HTTP_500_INTERNAL_SERVER_ERROR,
              store |-> Transaction(s, res), tried |-> res.store,
              body |-> IF res.ok THEN <<s.nextId.recipe>> ELSE <<>>]

\* RetrieveModelMixin.retrieve of RecipeViewSet
HandleRecipeRetrieve(s, caller, id) ==
    IF ~IsAuthenticated(caller) THEN Resp(HTTP_401_UNAUTHORIZED, s, <<>>)
    ELSE IF GetRecipe(s, caller, id) = {} THEN Resp(HTTP_404_NOT_FOUND, s, <<>>)
    ELSE Resp(HTTP_200_OK, s, <<id>>)

\* UpdateModelMixin.update (PUT) and partial_update (PATCH) of RecipeViewSet
HandleRecipeUpdate(s, caller, id, p, partial) ==
    IF ~IsAuthenticated(caller) THEN Resp(HTTP_401_UNAUTHORIZED, s, <<>>)
    ELSE IF GetRecipe(s, caller, id) = {} THEN Resp(HTTP_404_NOT_FOUND, s, <<>>)
    ELSE IF ~IsValidRecipe(p, partial) THEN Resp(HTTP_400_BAD_REQUEST, s, <<>>)
    ELSE LET row == CHOOSE r \in GetRecipe(s, caller, id) : TRUE
             res == perform_update(s, row, p, caller)
         IN  [status |-> IF res.ok THEN HTTP_200_OK
                         ELSE HTTP_500_INTERNAL_SERVER_ERROR,
              store |-> Transaction(s, res), tried |-> res.store,
              body |-> IF res.ok THEN <<id>> ELSE <<>>]

\* DestroyModelMixin.destroy of RecipeViewSet
HandleRecipeDestroy(s, caller, id) ==
    IF ~IsAuthenticated(caller) THEN Resp(HTTP_401_UNAUTHORIZED, s, <<>>)
    ELSE IF GetRecipe(s, caller, id) = {} THEN Resp(HTTP_404_NOT_FOUND, s, <<>>)
    ELSE Resp(HTTP_204_NO_CONTENT,
              DeleteRecipe(s, CHOOSE r \in GetRecipe(s, caller, id) : TRUE), <<>>)

-----------------------------------------------------------------------------
(* The handlers of the tag and ingredient endpoints.  The router binds a   *)
(* verb of a route only to an action the viewset has; any other verb is    *)
(* answered 405 once the request has passed authentication.                *)

\* the tag and ingredient serializers read name only
IsValidAttr(p, partial) ==
    /\ partial \/ "name" \in p.has
    /\ "name" \in p.has => p.name # ""

\* APIView.initial, then the lookup of the verb's handler
AttrGate(caller, op) ==
    IF ~IsAuthenticated(caller) THEN HTTP_401_UNAUTHORIZED
    ELSE IF op \notin BaseRecipeAttrViewSetActions THEN HTTP_405_METHOD_NOT_ALLOWED
    ELSE HTTP_200_OK

\* POST on the collection route and GET on the item route
HandleAttrUnbound(s, kind, caller, op) == Resp(AttrGate(caller, op), s, <<>>)

\* UpdateModelMixin.update and partial_update of a tag or ingredient viewset
HandleAttrUpdate(s, kind, caller, id, p, partial) ==
    LET op == IF partial THEN "partial_update" ELSE "update"
    IN  IF AttrGate(caller, op) # HTTP_200_OK THEN Resp(AttrGate(caller, op), s, <<>>)
        ELSE IF GetAttr(s, kind, caller, id) = {} THEN Resp(HTTP_404_NOT_FOUND, s, <<>>)
        ELSE IF ~IsValidAttr(p, partial) THEN Resp(HTTP_400_BAD_REQUEST, s, <<>>)
        ELSE LET row == CHOOSE r \in GetAttr(s, kind, caller, id) : TRUE
                 new == IF "name" \in p.has THEN [row EXCEPT !.name = p.name] ELSE row
             IN  Resp(HTTP_200_OK,
                      WithAttr(s, kind, (AttrRows(s, kind) \ {row}) \cup {new},
                               AttrLinks(s, kind), AttrNext(s, kind)),
                      <<id>>)

\* DestroyModelMixin.destroy of a tag or ingredient viewset
HandleAttrDestroy(s, kind, caller, id) ==
    IF AttrGate(caller, "destroy") # HTTP_200_OK
    THEN Resp(AttrGate(caller, "destroy"), s, <<>>)
    ELSE IF GetAttr(s, kind, caller, id) = {} THEN Resp(HTTP_404_NOT_FOUND, s, <<>>)
    ELSE Resp(HTTP_204_NO_CONTENT,
              DeleteAttr(s, kind, CHOOSE r \in GetAttr(s, kind, caller, id) : TRUE),
              <<>>)

-----------------------------------------------------------------------------
(* The user endpoints: account creation, open to anyone, and the profile   *)
(* of the authenticated caller.                                            *)

\* the shortest password the user serializer accepts
MinPasswordLength == 5

UserPay(has, email, password, name) ==
    [has |-> has, email |-> email, password |-> password, name |-> name]

\* serializer.is_valid of the user serializer; self is the id of the row
\* under update, 0 on create
IsValidUser(U, p, partial, self) ==
    /\ partial \/ {"email", "password", "name"} \subseteq p.has
    /\ "email" \in p.has =>
          /\ p.email # EmptyEmail
          /\ EmailUnique => ~\E u \in U : u.id # self /\ u.email = p.email
    /\ "password" \in p.has =>
          p.password.given /\ Len(p.password.chars) >= MinPasswordLength
    /\ "name" \in p.has => p.name # ""

UResp(status, U, nxt, body) == [status |-> status, users |-> U, next |-> nxt, body |-> body]

\* POST on the account creation endpoint: is_valid, then create_user
HandleUserCreate(U, nxt, p) ==
    IF ~IsValidUser(U, p, FALSE, 0) THEN UResp(HTTP_400_BAD_REQUEST, U, nxt, <<>>)
    ELSE LET made == create_user(U, nxt, p.email, p.password, p.name)
         IN  IF made.ok THEN UResp(HTTP_201_CREATED, made.users, nxt + 1, <<nxt>>)
             ELSE UResp(HTTP_500_INTERNAL_SERVER_ERROR, U, nxt, <<>>)

\* the verbs the profile view answers
ManageUserViewActions == {"retrieve", "update", "partial_update"}

\* the profile endpoint: the caller's own row, read or updated
HandleMe(U, nxt, caller, op, p) ==
    IF ~IsAuthenticated(caller) THEN UResp(HTTP_401_UNAUTHORIZED, U, nxt, <<>>)
    ELSE IF op \notin ManageUserViewActions
    THEN UResp(HTTP_405_METHOD_NOT_ALLOWED, U, nxt, <<>>)
    ELSE IF op = "retrieve" THEN UResp(HTTP_200_OK, U, nxt, <<caller>>)
    ELSE IF ~IsValidUser(U, p, op = "partial_update", caller)
    THEN UResp(HTTP_400_BAD_REQUEST, U, nxt, <<>>)
    ELSE LET new(row) ==
                 [row EXCEPT
                     !.email = IF "email" \in p.has THEN p.email ELSE @,
                     !.name = IF "name" \in p.has THEN p.name ELSE @,
                     !.password = IF "password" \in p.has
                                  THEN make_password(p.password) ELSE @]
         IN  UResp(HTTP_200_OK, {IF u.id = caller THEN new(u) ELSE u : u \in U},
                   nxt, <<caller>>)

-----------------------------------------------------------------------------
(* The requests of the model. *)

NoPayload == Pay({}, "", <<>>, <<>>, Anonymous)

\* the payloads of the requests on the recipe endpoints under Spec: with
\* embedded objects, the scalar fields alone, and with a user key
RecipePayloads ==
    {Pay(RequiredFields \cup RelationFields, "v1", <<"a">>, <<"a">>, Anonymous),
     Pay({"title"}, "v2", <<>>, <<>>, Anonymous),
     Pay(RequiredFields \cup {"user"}, "v1", <<>>, <<>>, 2),
     Pay({"user"}, "v1", <<>>, <<>>, 1)}

\* the payloads of the requests on the recipe endpoints under SpecWrite: what
\* the write pipeline distinguishes
WritePayloads ==
    {Pay(RequiredFields \cup {"tags"}, "v1", <<"a", "b">>, <<>>, Anonymous),
     Pay(RequiredFields \cup RelationFields, "v1", <<"a", "a">>, <<"a">>, Anonymous),
     Pay(RequiredFields \cup {"tags"}, "v1", <<"a", "">>, <<>>, Anonymous),
     Pay({"ingredients"}, "v1", <<>>, <<"">>, Anonymous),
     Pay({"title"}, "v2", <<>>, <<>>, Anonymous),
     Pay({"tags"}, "v1", <<>>, <<>>, Anonymous),
     Pay({"tags"}, "v1", <<"b">>, <<>>, Anonymous)}

\* the payloads of the requests on the tag and ingredient endpoints
AttrPayloads == {Pay({"name"}, n, <<>>, <<>>, Anonymous) : n \in {"b", ""}}

Kinds == {"tag", "ingredient"}
\* the ids a request may name: every id given out so far, and the next one,
\* which no row has
RecipeIds == 1..nextId.recipe
AttrIds(kind) == 1..AttrNext(Store, kind)

NoRequest ==
    [endpoint |-> "none", op |-> "none", caller |-> Anonymous, target |-> 0,
     payload |-> NoPayload, status |-> 0, error |-> "", body |-> <<>>]

\* what a transaction has written and not committed: the rows and links it
\* has added to the tables, and those it has removed from them
NoTables ==
    [recipes |-> {}, tags |-> {}, ingredients |-> {}, recipe_tags |-> {},
     recipe_ingredients |-> {}]
NoDelta == [add |-> NoTables, del |-> NoTables]

\* no request of the user is in progress
Idle ==
    [pc |-> "idle", endpoint |-> "none", op |-> "none", target |-> 0,
     rid |-> 0, payload |-> NoPayload, kind |-> "tag", todo |-> <<>>, ok |-> TRUE,
     status |-> 0, body |-> <<>>, delta |-> NoDelta,
     solo |-> [status |-> 0, body |-> <<>>, mine |-> NoTables]]

\* one request on a recipe, tag or ingredient endpoint, answered by r: the
\* server takes a request once the response to the one before has left
Request(endpoint, op, caller, target, p, r) ==
    /\ last = NoRequest
    /\ r.store # Store => writes < MaxWrites
    /\ writes' = IF r.store # Store THEN writes + 1 ELSE writes
    /\ SetStore(r.store)
    /\ last' = [endpoint |-> endpoint, op |-> op, caller |-> caller,
                target |-> target, payload |-> p, status |-> r.status,
                error |-> "", body |-> r.body]
    /\ UNCHANGED <<users, inflight>>

RecipeList(caller) ==
    Request("recipe", "list", caller, 0, NoPayload, HandleRecipeList(Store, caller))

RecipeCreate(caller, p) ==
    Request("recipe", "create", caller, 0, p, HandleRecipeCreate(Store, caller, p))

RecipeRetrieve(caller, id) ==
    Request("recipe", "retrieve", caller, id, NoPayload,
            HandleRecipeRetrieve(Store, caller, id))

RecipeUpdate(caller, id, p) ==
    Request("recipe", "update", caller, id, p,
            HandleRecipeUpdate(Store, caller, id, p, FALSE))

RecipePartialUpdate(caller, id, p) ==
    Request("recipe", "partial_update", caller, id, p,
            HandleRecipeUpdate(Store, caller, id, p, TRUE))

RecipeDestroy(caller, id) ==
    Request("recipe", "destroy", caller, id, NoPayload,
            HandleRecipeDestroy(Store, caller, id))

AttrList(kind, caller) ==
    /\ last = NoRequest
    /\ IF AttrGate(caller, "list") # HTTP_200_OK
       THEN Request(kind, "list", caller, 0, NoPayload,
                    Resp(AttrGate(caller, "list"), Store, <<>>))
       ELSE \E body \in NameDescOrders(AttrQueryset(Store, kind, caller)) :
               Request(kind, "list", caller, 0, NoPayload,
                       Resp(HTTP_200_OK, Store, body))

AttrCreate(kind, caller, p) ==
    Request(kind, "create", caller, 0, p, HandleAttrUnbound(Store, kind, caller, "create"))

AttrRetrieve(kind, caller, id) ==
    Request(kind, "retrieve", caller, id, NoPayload,
            HandleAttrUnbound(Store, kind, caller, "retrieve"))

AttrUpdate(kind, caller, id, p) ==
    Request(kind, "update", caller, id, p,
            HandleAttrUpdate(Store, kind, caller, id, p, FALSE))

AttrPartialUpdate(kind, caller, id, p) ==
    Request(kind, "partial_update", caller, id, p,
            HandleAttrUpdate(Store, kind, caller, id, p, TRUE))

AttrDestroy(kind, caller, id) ==
    Request(kind, "destroy", caller, id, NoPayload,
            HandleAttrDestroy(Store, kind, caller, id))

\* one request on a user endpoint, or one call of the user manager
UserRequest(endpoint, op, caller, p, r, error) ==
    /\ last = NoRequest
    /\ r.users # users => writes < MaxWrites
    /\ writes' = IF r.users # users THEN writes + 1 ELSE writes
    /\ users' = r.users
    /\ nextId' = [nextId EXCEPT !.user = r.next]
    /\ last' = [endpoint |-> endpoint, op |-> op, caller |-> caller, target |-> 0,
                payload |-> p, status |-> r.status, error |-> error, body |-> r.body]
    /\ UNCHANGED <<recipes, tags, ingredients, recipe_tags, recipe_ingredients, inflight>>

UserCreate(p) ==
    UserRequest("user", "create", Anonymous, p, HandleUserCreate(users, nextId.user, p), "")

Me(caller, op, p) ==
    UserRequest("me", op, caller, p, HandleMe(users, nextId.user, caller, op, p), "")

\* get_user_model().objects.create_user(email, password)
ManagerCreateUser(email, password) ==
    LET made == create_user(users, nextId.user, email, password, "")
    IN  UserRequest("manager", "create_user", Anonymous,
                    UserPay({"email", "password"}, email, password, ""),
                    UResp(0, made.users, IF made.ok THEN nextId.user + 1 ELSE nextId.user,
                          IF made.ok THEN <<nextId.user>> ELSE <<>>),
                    made.error)

\* get_user_model().objects.create_superuser(email, password)
ManagerCreateSuperuser(email, password) ==
    LET made == create_superuser(users, nextId.user, email, password)
    IN  UserRequest("manager", "create_superuser", Anonymous,
                    UserPay({"email", "password"}, email, password, ""),
                    UResp(0, made.users, IF made.ok THEN nextId.user + 1 ELSE nextId.user,
                          IF made.ok THEN <<nextId.user>> ELSE <<>>),
                    made.error)

\* the response leaves the server
Deliver ==
    /\ last # NoRequest
    /\ last' = NoRequest
    /\ UNCHANGED <<users, recipes, tags, ingredients, recipe_tags, recipe_ingredients,
                   nextId, writes, inflight>>

-----------------------------------------------------------------------------
(* The specification of the recipe API: two registered accounts, and any   *)
(* sequence of requests by them or by an unauthenticated client.           *)

RegisteredUsers ==
    {UserRow(1, <<"a", "@", "x">>, GoodPassword, "n1"),
     UserRow(2, <<"A", "@", "x">>, GoodPassword, "n1")}

Init ==
    /\ users = RegisteredUsers
    /\ recipes = {}
    /\ tags = {}
    /\ ingredients = {}
    /\ recipe_tags = {}
    /\ recipe_ingredients = {}
    /\ nextId = [user |-> 3, recipe |-> 1, tag |-> 1, ingredient |-> 1]
    /\ writes = 0
    /\ last = NoRequest
    /\ inflight = [u \in UserIds |-> Idle]

\* any request of a caller of CS, with a recipe payload of RP or a tag or
\* ingredient payload of AP
Requests(CS, RP, AP) ==
    \/ last = NoRequest /\ \E caller \in CS : RecipeList(caller)
    \/ last = NoRequest /\ \E caller \in CS, p \in RP : RecipeCreate(caller, p)
    \/ last = NoRequest /\ \E caller \in CS, id \in RecipeIds : RecipeRetrieve(caller, id)
    \/ last = NoRequest /\ \E caller \in CS, id \in RecipeIds, p \in RP :
          RecipeUpdate(caller, id, p)
    \/ last = NoRequest /\ \E caller \in CS, id \in RecipeIds, p \in RP :
          RecipePartialUpdate(caller, id, p)
    \/ last = NoRequest /\ \E caller \in CS, id \in RecipeIds : RecipeDestroy(caller, id)
    \/ last = NoRequest /\ \E caller \in CS, kind \in Kinds : AttrList(kind, caller)
    \/ last = NoRequest /\ \E caller \in CS, kind \in Kinds, p \in AP :
          AttrCreate(kind, caller, p)
    \/ last = NoRequest /\ \E caller \in CS, kind \in Kinds :
          \E id \in AttrIds(kind) : AttrRetrieve(kind, caller, id)
    \/ last = NoRequest /\ \E caller \in CS, kind \in Kinds, p \in AP :
          \E id \in AttrIds(kind) : AttrUpdate(kind, caller, id, p)
    \/ last = NoRequest /\ \E caller \in CS, kind \in Kinds, p \in AP :
          \E id \in AttrIds(kind) : AttrPartialUpdate(kind, caller, id, p)
    \/ last = NoRequest /\ \E caller \in CS, kind \in Kinds :
          \E id \in AttrIds(kind) : AttrDestroy(kind, caller, id)

\* the payloads of the requests on the profile endpoint
MePayloads ==
    {UserPay({"name"}, EmptyEmail, NoPassword, "n2"),
     UserPay({"password"}, EmptyEmail, OtherPassword, ""),
     UserPay({"password"}, EmptyEmail, ShortPassword, "")}

\* any request of a caller of CS on the profile endpoint
MeRequests(CS) ==
    /\ last = NoRequest
    /\ \E caller \in CS, op \in ManageUserViewActions \cup {"create"}, p \in MePayloads :
          Me(caller, op, p)

Next ==
    \/ Deliver
    \/ Requests(Callers, RecipePayloads, AttrPayloads)
    \/ MeRequests(Callers)

Spec == Init /\ [][Next]_vars

(* The specification of the write pipeline: the two accounts, authenticated, *)
(* with the payloads the pipeline distinguishes.                             *)

NextWrite == Deliver \/ Requests(UserIds, WritePayloads, AttrPayloads)

SpecWrite == Init /\ [][NextWrite]_vars

-----------------------------------------------------------------------------
(* The specification of the user store: no account at first, then calls of *)
(* the user manager and requests on the user endpoints.                    *)

UserPayloads ==
    {UserPay({"email", "password", "name"}, e, pw, "n1") :
        e \in Emails, pw \in {GoodPassword, ShortPassword}}

InitUsers ==
    /\ users = {}
    /\ recipes = {}
    /\ tags = {}
    /\ ingredients = {}
    /\ recipe_tags = {}
    /\ recipe_ingredients = {}
    /\ nextId = [user |-> 1, recipe |-> 1, tag |-> 1, ingredient |-> 1]
    /\ writes = 0
    /\ last = NoRequest
    /\ inflight = [u \in UserIds |-> Idle]

NextUsers ==
    \/ Deliver
    \/ last = NoRequest /\ \E e \in Emails, pw \in {NoPassword, GoodPassword, ShortPassword} :
          ManagerCreateUser(e, pw)
    \/ last = NoRequest /\ \E e \in Emails : ManagerCreateSuperuser(e, GoodPassword)
    \/ last = NoRequest /\ \E p \in UserPayloads : UserCreate(p)
    \/ MeRequests({Anonymous} \cup {u.id : u \in users})

SpecUsers == InitUsers /\ [][NextUsers]_vars

-----------------------------------------------------------------------------
(* Requests in steps.  Each user has at most one request in progress; the  *)
(* server works on the requests of different users at once, one statement  *)
(* of one request at a time.  A request runs in a transaction: it reads    *)
(* what is committed and what it has written itself, and its writes reach  *)
(* the tables when it commits.  The id of a new row is drawn from the       *)
(* table's sequence at the insert, outside the transaction.                 *)

\* the store as a transaction with uncommitted writes d sees it
View(s, d) ==
    [recipes |-> (s.recipes \ d.del.recipes) \cup d.add.recipes,
     tags |-> (s.tags \ d.del.tags) \cup d.add.tags,
     ingredients |-> (s.ingredients \ d.del.ingredients) \cup d.add.ingredients,
     recipe_tags |-> (s.recipe_tags \ d.del.recipe_tags) \cup d.add.recipe_tags,
     recipe_ingredients |->
        (s.recipe_ingredients \ d.del.recipe_ingredients) \cup d.add.recipe_ingredients,
     nextId |-> s.nextId]

\* the uncommitted writes that make a transaction see v on the store s
DeltaTo(s, v) ==
    [add |-> [f \in DOMAIN NoTables |-> v[f] \ s[f]],
     del |-> [f \in DOMAIN NoTables |-> s[f] \ v[f]]]

\* the rows of user u in store s, and the links of u's recipes
Mine(s, u) ==
    LET rids == {r.id : r \in {x \in s.recipes : x.user = u}}
    IN  [recipes |-> {r \in s.recipes : r.user = u},
         tags |-> {r \in s.tags : r.user = u},
         ingredients |-> {r \in s.ingredients : r.user = u},
         recipe_tags |-> {l \in s.recipe_tags : l[1] \in rids},
         recipe_ingredients |-> {l \in s.recipe_ingredients : l[1] \in rids}]

\* the handler of a request, run on store s without interruption
Handle(s, endpoint, op, caller, target, p) ==
    IF endpoint = "recipe"
    THEN CASE op = "create" -> HandleRecipeCreate(s, caller, p)
           [] op = "list" -> HandleRecipeList(s, caller)
           [] op = "retrieve" -> HandleRecipeRetrieve(s, caller, target)
           [] op = "destroy" -> HandleRecipeDestroy(s, caller, target)
           [] OTHER -> HandleRecipeUpdate(s, caller, target, p, op = "partial_update")
    ELSE CASE op \in {"update", "partial_update"} ->
                HandleAttrUpdate(s, endpoint, caller, target, p, op = "partial_update")
           [] op = "destroy" -> HandleAttrDestroy(s, endpoint, caller, target)
           [] OTHER -> HandleAttrUnbound(s, endpoint, caller, op)

\* what the request gives when no other request runs: the response, and the
\* rows and links of the caller after it
Solo(s, endpoint, op, caller, target, p) ==
    LET r == Handle(s, endpoint, op, caller, target, p)
    IN  [status |-> r.status, body |-> r.body, mine |-> Mine(r.store, caller)]

\* the write pipeline is through: a create answers, an update goes on to the
\* scalar fields
Finish(fl) ==
    IF fl.op = "create"
    THEN [fl EXCEPT !.pc = "commit", !.todo = <<>>, !.status = HTTP_201_CREATED,
                    !.body = <<fl.rid>>]
    ELSE [fl EXCEPT !.pc = "save", !.todo = <<>>]

\* the pipeline comes to a relation: a create resolves its embedded objects,
\* an update clears the links first, when the payload supplies the relation
StartRel(fl, kind, after) ==
    LET names == Embedded(ValidatedData(fl.payload), kind)
    IN  IF fl.op = "create"
        THEN (IF names = <<>> THEN after
              ELSE [fl EXCEPT !.pc = "resolve", !.kind = kind, !.todo = names])
        ELSE IF Supplies(ValidatedData(fl.payload), kind)
        THEN [fl EXCEPT !.pc = "clear", !.kind = kind, !.todo = names]
        ELSE after

StartIngredients(fl) == StartRel(fl, "ingredient", Finish(fl))
StartTags(fl) == StartRel(fl, "tag", StartIngredients(fl))
AfterRel(fl) == IF fl.kind = "tag" THEN StartIngredients(fl) ELSE Finish(fl)

\* the request arrives: authentication, get_object, is_valid
Arrive(u, endpoint, op, target, p) ==
    /\ inflight[u].pc = "idle"
    /\ writes < MaxWrites
    /\ writes' = writes + 1
    /\ LET fl == [Idle EXCEPT !.endpoint = endpoint, !.op = op, !.target = target,
                              !.rid = target, !.payload = p]
           refused(status) == [fl EXCEPT !.pc = "commit", !.status = status]
           begun ==
              IF ~IsAuthenticated(u) THEN refused(HTTP_401_UNAUTHORIZED)
              ELSE IF ~(endpoint = "recipe" /\ op \in {"create", "update", "partial_update"})
              THEN [fl EXCEPT !.pc = "execute"]
              ELSE IF op # "create" /\ GetRecipe(Store, u, target) = {}
              THEN refused(HTTP_404_NOT_FOUND)
              ELSE IF ~IsValidRecipe(p, op = "partial_update")
              THEN refused(HTTP_400_BAD_REQUEST)
              ELSE IF op = "create" THEN [fl EXCEPT !.pc = "insert"]
              ELSE StartTags(fl)
       IN  inflight' =
              [inflight EXCEPT ![u] =
                  [begun EXCEPT !.solo = Solo(Store, endpoint, op, u, target, p)]]
    /\ UNCHANGED <<users, recipes, tags, ingredients, recipe_tags, recipe_ingredients,
                   nextId, last>>

\* a request that reads, or writes one row: a list, a delete, the update of a
\* tag or an ingredient
Execute(u) ==
    LET fl == inflight[u]
        r == Handle(View(Store, fl.delta), fl.endpoint, fl.op, u, fl.target, fl.payload)
    IN  /\ fl.pc = "execute"
        /\ inflight' = [inflight EXCEPT ![u] =
                           [fl EXCEPT !.pc = "commit", !.status = r.status,
                                      !.body = r.body,
                                      !.delta = DeltaTo(Store, r.store)]]
        /\ UNCHANGED <<users, recipes, tags, ingredients, recipe_tags,
                       recipe_ingredients, nextId, writes, last>>

\* serializer.create: the insert of the recipe row
InsertRecipe(u) ==
    LET fl == inflight[u]
        rid == nextId.recipe
        v == View(Store, fl.delta)
        v2 == [v EXCEPT !.recipes = @ \cup {RecipeRow(rid, u, ValidatedData(fl.payload))}]
    IN  /\ fl.pc = "insert"
        /\ nextId' = [nextId EXCEPT !.recipe = rid + 1]
        /\ inflight' = [inflight EXCEPT ![u] =
                           StartTags([fl EXCEPT !.rid = rid,
                                                !.delta = DeltaTo(Store, v2)])]
        /\ UNCHANGED <<users, recipes, tags, ingredients, recipe_tags,
                       recipe_ingredients, writes, last>>

\* serializer.update: instance.<relation>.clear()
ClearLinks(u) ==
    LET fl == inflight[u]
        v == View(Store, fl.delta)
        v2 == WithAttr(v, fl.kind, AttrRows(v, fl.kind),
                       {l \in AttrLinks(v, fl.kind) : l[1] # fl.rid}, AttrNext(v, fl.kind))
        fl2 == [fl EXCEPT !.delta = DeltaTo(Store, v2)]
    IN  /\ fl.pc = "clear"
        /\ inflight' = [inflight EXCEPT ![u] =
                           IF fl.todo = <<>> THEN AfterRel(fl2)
                           ELSE [fl2 EXCEPT !.pc = "resolve"]]
        /\ UNCHANGED <<users, recipes, tags, ingredients, recipe_tags,
                       recipe_ingredients, nextId, writes, last>>

\* get_or_create and add for the next embedded object
GetOrCreateOne(u) ==
    LET fl == inflight[u]
        v == View(Store, fl.delta)
        r == GetOrCreateAll(<<Head(fl.todo)>>, AttrRows(v, fl.kind), AttrLinks(v, fl.kind),
                            AttrNext(v, fl.kind), fl.rid, u)
        v2 == WithAttr(v, fl.kind, r.rows, r.links, r.next)
        fl2 == [fl EXCEPT !.delta = DeltaTo(Store, v2), !.todo = Tail(fl.todo)]
    IN  /\ fl.pc = "resolve"
        /\ nextId' = v2.nextId
        /\ inflight' = [inflight EXCEPT ![u] =
                           IF ~r.ok
                           THEN [fl EXCEPT !.pc = "commit", !.ok = FALSE, !.todo = <<>>,
                                           !.status = HTTP_500_INTERNAL_SERVER_ERROR]
                           ELSE IF fl2.todo = <<>> THEN AfterRel(fl2)
                           ELSE fl2]
        /\ UNCHANGED <<users, recipes, tags, ingredients, recipe_tags,
                       recipe_ingredients, writes, last>>

\* serializer.update: setattr for the scalar fields, and instance.save()
SaveRecipe(u) ==
    LET fl == inflight[u]
        v == View(Store, fl.delta)
        row == CHOOSE r \in v.recipes : r.id = fl.rid
        v2 == [v EXCEPT !.recipes =
                           (@ \ {row}) \cup {SetAttrs(row, ValidatedData(fl.payload))}]
    IN  /\ fl.pc = "save"
        /\ inflight' = [inflight EXCEPT ![u] =
                           [fl EXCEPT !.pc = "commit", !.status = HTTP_200_OK,
                                      !.body = <<fl.rid>>,
                                      !.delta = DeltaTo(Store, v2)]]
        /\ UNCHANGED <<users, recipes, tags, ingredients, recipe_tags,
                       recipe_ingredients, nextId, writes, last>>

\* the transaction ends, committed or rolled back, and the response leaves
\* the handler
Commit(u) ==
    LET fl == inflight[u]
    IN  /\ fl.pc = "commit"
        /\ last = NoRequest
        /\ SetStore(Transaction(Store, [ok |-> fl.ok, store |-> View(Store, fl.delta)]))
        /\ last' = [endpoint |-> fl.endpoint, op |-> fl.op, caller |-> u,
                    target |-> fl.target, payload |-> fl.payload, status |-> fl.status,
                    error |-> "", body |-> fl.body]
        /\ inflight' = [inflight EXCEPT ![u] = Idle]
        /\ UNCHANGED <<users, writes>>

\* the payloads of the requests in steps
CreatePayloads ==
    {Pay(RequiredFields \cup RelationFields, "v1", <<"a", "b">>, <<"a">>, Anonymous)}
PatchPayloads == {Pay({"title", "tags"}, "v2", <<"b">>, <<>>, Anonymous)}

RenamePayloads == {Pay({"name"}, "b", <<>>, <<>>, Anonymous)}

\* the ids of the rows of m in the table of an endpoint
IdsOf(m, endpoint) ==
    {r.id : r \in IF endpoint = "recipe" THEN m.recipes
                  ELSE IF endpoint = "tag" THEN m.tags ELSE m.ingredients}

\* the ids of the rows a table holds, whoever owns them
StoredIds(endpoint) == IdsOf(Store, endpoint)

\* a step of a request of some user, once the response before has left
NextSteps ==
    \/ Deliver
    \/ last = NoRequest /\ \E u \in UserIds, p \in CreatePayloads :
          Arrive(u, "recipe", "create", 0, p)
    \/ last = NoRequest /\ \E u \in UserIds, id \in StoredIds("recipe"), p \in PatchPayloads :
          Arrive(u, "recipe", "partial_update", id, p)
    \/ last = NoRequest /\ \E u \in UserIds, id \in StoredIds("recipe") :
          Arrive(u, "recipe", "destroy", id, NoPayload)
    \/ last = NoRequest /\ \E u \in UserIds : Arrive(u, "recipe", "list", 0, NoPayload)
    \/ last = NoRequest /\ \E u \in UserIds, kind \in Kinds, p \in RenamePayloads :
          \E id \in StoredIds(kind) : Arrive(u, kind, "update", id, p)
    \/ last = NoRequest /\ \E u \in UserIds, kind \in Kinds :
          \E id \in StoredIds(kind) : Arrive(u, kind, "destroy", id, NoPayload)
    \/ last = NoRequest /\ \E u \in UserIds : Execute(u)
    \/ last = NoRequest /\ \E u \in UserIds : InsertRecipe(u)
    \/ last = NoRequest /\ \E u \in UserIds : ClearLinks(u)
    \/ last = NoRequest /\ \E u \in UserIds : GetOrCreateOne(u)
    \/ last = NoRequest /\ \E u \in UserIds : SaveRecipe(u)
    \/ last = NoRequest /\ \E u \in UserIds : Commit(u)

SpecSteps == Init /\ [][NextSteps]_vars

-----------------------------------------------------------------------------
(* Properties.  A step that answers a request leaves the request and the   *)
(* response in last': Store is the store before it, Store' the store after. *)

ItemOps == {"retrieve", "update", "partial_update", "destroy"}
WriteOps == {"create", "update", "partial_update"}
RecipeEndpoints == {"recipe", "tag", "ingredient"}

\* the rows behind an endpoint
Rows(s, endpoint) == IF endpoint = "recipe" THEN s.recipes ELSE AttrRows(s, endpoint)

\* rq is a request of a registered user on the item endpoint of a row that
\* another user owns in store s
CrossUserItem(s, rq) ==
    /\ rq.endpoint \in RecipeEndpoints
    /\ rq.op \in ItemOps
    /\ rq.caller \in UserIds
    /\ \E row \in Rows(s, rq.endpoint) : row.id = rq.target /\ row.user # rq.caller

\* C1 as claimed: every retrieve, partial update, full update or delete that a
\* user issues on the item endpoint of a recipe, tag or ingredient owned by
\* another user is answered not-found and changes nothing.
C1_CrossUserNotFound ==
    [][CrossUserItem(Store, last') =>
          last'.status = HTTP_404_NOT_FOUND /\ Store' = Store]_vars

\* C1 as amended: such a request changes nothing and is never answered with
\* success or forbidden: it is answered not-found, except a retrieve on a tag
\* or ingredient item endpoint, which no viewset action serves and which is
\* answered method-not-allowed.
C1_CrossUserRejected ==
    [][CrossUserItem(Store, last') =>
          /\ Store' = Store
          /\ last'.status = IF last'.endpoint # "recipe" /\ last'.op = "retrieve"
                            THEN HTTP_405_METHOD_NOT_ALLOWED
                            ELSE HTTP_404_NOT_FOUND]_vars

\* a delete of another user's recipe that has a linked tag was answered 404
C1_Witness ==
    /\ last.endpoint = "recipe"
    /\ last.op = "destroy"
    /\ last.caller \in UserIds
    /\ last.status = HTTP_404_NOT_FOUND
    /\ \E r \in recipes :
          /\ r.id = last.target
          /\ r.user # last.caller
          /\ \E l \in recipe_tags : l[1] = r.id

-----------------------------------------------------------------------------

\* rq is a write on a recipe endpoint, by a registered user, whose payload
\* carries a user key
WriteWithUserKey(rq) ==
    /\ rq.endpoint = "recipe"
    /\ rq.op \in WriteOps
    /\ rq.caller \in UserIds
    /\ "user" \in rq.payload.has

-----------------------------------------------------------------------------

\* the rows of a tag or ingredient table named n and owned by u
Matching(rows, n, u) == {r \in rows : r.name = n /\ r.user = u}

\* rq is a write on a recipe endpoint that succeeded
RecipeWriteOK(rq) ==
    /\ rq.endpoint = "recipe"
    /\ rq.op \in WriteOps
    /\ rq.status \in {HTTP_200_OK, HTTP_201_CREATED}

\* the recipe a write on a recipe endpoint wrote
WrittenRecipe(rq) == IF rq.op = "create" THEN rq.body[1] ELSE rq.target

\* C3: a request on a recipe endpoint never adds a row whose (name, owner)
\* another row has; a recipe write that succeeds resolves each embedded name
\* to the caller's row of that name when there is one, and to exactly one new
\* row of the caller otherwise, links the recipe to it, adds no other row and
\* removes none; after a create the recipe has as many links as the payload
\* has distinct names.
C3_GetOrCreate ==
    [][\A kind \in Kinds :
          LET rows == AttrRows(Store, kind)
              after == AttrRows(Store', kind)
              links == AttrLinks(Store', kind)
              names == SeqRange(Embedded(last'.payload, kind))
              rid == WrittenRecipe(last')
          IN  /\ last'.endpoint = "recipe" =>
                    \A n \in Names, u \in UserIds :
                       Cardinality(Matching(after, n, u)) > Cardinality(Matching(rows, n, u))
                       => Cardinality(Matching(after, n, u)) = 1
              /\ RecipeWriteOK(last') /\ Supplies(last'.payload, kind) =>
                    /\ \A n \in names :
                          /\ Matching(rows, n, last'.caller) # {} =>
                                Matching(after, n, last'.caller) = Matching(rows, n, last'.caller)
                          /\ Cardinality(Matching(after, n, last'.caller)) = 1
                          /\ \E r \in Matching(after, n, last'.caller) : <<rid, r.id>> \in links
                    /\ rows \subseteq after
                    /\ \A r \in after \ rows : r.user = last'.caller /\ r.name \in names
                    /\ last'.op = "create" =>
                          Cardinality({l \in links : l[1] = rid}) = Cardinality(names)
      ]_vars

\* a create whose payload names the tag "a" twice was answered 201 when the
\* caller had a tag "a" that another recipe is linked to: the new recipe is
\* linked to that one row
C3_Witness ==
    /\ last.endpoint = "recipe"
    /\ last.op = "create"
    /\ last.status = HTTP_201_CREATED
    /\ last.payload.tags = <<"a", "a">>
    /\ Cardinality(Matching(tags, "a", last.caller)) = 1
    /\ \E t \in Matching(tags, "a", last.caller) :
          /\ <<last.body[1], t.id>> \in recipe_tags
          /\ \E l \in recipe_tags : l[2] = t.id /\ l[1] # last.body[1]

\* C4: every tag and every ingredient linked to a recipe is owned by the
\* owner of the recipe.
C4_LinksWithinOwner ==
    \A kind \in Kinds :
       \A l \in AttrLinks(Store, kind) :
          \A r \in recipes, t \in AttrRows(Store, kind) :
             r.id = l[1] /\ t.id = l[2] => r.user = t.user

\* both users own a recipe linked to a tag, and a recipe is linked to an
\* ingredient
C4_Witness ==
    /\ \A u \in UserIds :
          \E r \in recipes, t \in tags : r.user = u /\ <<r.id, t.id>> \in recipe_tags
    /\ \E r \in recipes, i \in ingredients : <<r.id, i.id>> \in recipe_ingredients

\* C5: a partial update of a recipe that succeeds sets the scalar fields the
\* payload supplies and keeps the others, keeps the owner and every other
\* recipe, and leaves the rows and the links of a relation the payload omits
\* as they were.
C5_PartialUpdateFrame ==
    [][/\ last'.endpoint = "recipe"
       /\ last'.op = "partial_update"
       /\ last'.status = HTTP_200_OK
       => /\ \E row \in recipes, new \in recipes' :
                /\ row.id = last'.target
                /\ new.id = last'.target
                /\ recipes' \ {new} = recipes \ {row}
                /\ new.user = row.user
                /\ \A f \in ScalarFields :
                      new[f] = IF f \in last'.payload.has THEN last'.payload[f] ELSE row[f]
          /\ \A kind \in Kinds :
                ~Supplies(last'.payload, kind) =>
                   /\ AttrRows(Store', kind) = AttrRows(Store, kind)
                   /\ AttrLinks(Store', kind) = AttrLinks(Store, kind)
      ]_vars

\* a partial update that supplies the title alone was answered 200 on a
\* recipe that has a linked tag and a linked ingredient
C5_Witness ==
    /\ last.endpoint = "recipe"
    /\ last.op = "partial_update"
    /\ last.status = HTTP_200_OK
    /\ last.payload.has = {"title"}
    /\ \E r \in recipes : r.id = last.target /\ r.title = last.payload.title
    /\ \E l \in recipe_tags : l[1] = last.target
    /\ \E l \in recipe_ingredients : l[1] = last.target

\* the payload of rq fails validation: a required field is missing from a
\* create or a full update, or an embedded object has an empty name
FailsValidation(rq) ==
    \/ rq.op # "partial_update" /\ ~(RequiredFields \subseteq rq.payload.has)
    \/ \E kind \in Kinds : "" \in SeqRange(Embedded(rq.payload, kind))

C7_UnauthenticatedRejected ==
    [][/\ last'.endpoint \in RecipeEndpoints \cup {"me"}
       /\ last'.caller = Anonymous
       => /\ last'.status = HTTP_401_UNAUTHORIZED
          /\ Store' = Store
          /\ users' = users
      ]_vars

\* an unauthenticated create of a recipe with a valid payload was answered
\* 401 when the store held recipes
C7_Witness ==
    /\ last.endpoint = "recipe"
    /\ last.op = "create"
    /\ last.caller = Anonymous
    /\ RequiredFields \subseteq last.payload.has
    /\ last.status = HTTP_401_UNAUTHORIZED
    /\ recipes # {}

\* no two user rows have the same email
NoSharedEmail == \A u, v \in users : u.email = v.email => u = v

\* C8: no two user rows have the same email, and a request that creates a
\* user with the email of an existing user is answered 400 and leaves the
\* users as they were.
C8_UniqueEmail ==
    /\ []NoSharedEmail
    /\ [][/\ last'.endpoint = "user"
          /\ last'.op = "create"
          /\ \E u \in users : u.email = last'.payload.email
          => /\ last'.status = HTTP_400_BAD_REQUEST
             /\ users' = users
         ]_vars

\* a request that creates a user with an acceptable password and the email
\* of an existing user was answered 400
C8_Witness ==
    /\ last.endpoint = "user"
    /\ last.op = "create"
    /\ last.payload.password = GoodPassword
    /\ \E u \in users : u.email = last.payload.email
    /\ last.status = HTTP_400_BAD_REQUEST

\* the ids of the rows of a tag or ingredient table
AttrRowIds(s, kind) == {r.id : r \in AttrRows(s, kind)}

\* C9 as stated: a create on the tag or ingredient collection endpoint by an
\* authenticated user, with a name, is answered 201 and adds a row of that
\* name owned by the caller.
C9_ExplicitCreate ==
    [][\A kind \in Kinds :
          /\ last'.endpoint = kind
          /\ last'.op = "create"
          /\ last'.caller \in UserIds
          /\ last'.payload.name # ""
          => /\ last'.status = HTTP_201_CREATED
             /\ \E r \in AttrRows(Store', kind) :
                   /\ r.id \notin AttrRowIds(Store, kind)
                   /\ r.user = last'.caller
                   /\ r.name = last'.payload.name
      ]_vars

\* C9: a tag or an ingredient is created in one way only, as a side effect of
\* a recipe write that succeeds, which names it and whose caller owns it; a
\* create on the tag or ingredient collection endpoint is answered 405 (401
\* without an authenticated identity) and adds no row.
C9_ImplicitOnly ==
    [][\A kind \in Kinds :
          /\ last'.endpoint = kind /\ last'.op = "create" =>
                /\ last'.status = IF last'.caller = Anonymous
                                  THEN HTTP_401_UNAUTHORIZED
                                  ELSE HTTP_405_METHOD_NOT_ALLOWED
                /\ Store' = Store
          /\ \A r \in AttrRows(Store', kind) :
                r.id \notin AttrRowIds(Store, kind) =>
                   /\ RecipeWriteOK(last')
                   /\ r.user = last'.caller
                   /\ r.name \in SeqRange(Embedded(last'.payload, kind))
          /\ RecipeWriteOK(last') /\ Supplies(last'.payload, kind) =>
                \A n \in SeqRange(Embedded(last'.payload, kind)) :
                   Matching(AttrRows(Store, kind), n, last'.caller) = {} =>
                      \E r \in Matching(AttrRows(Store', kind), n, last'.caller) :
                         r.id \notin AttrRowIds(Store, kind)
      ]_vars

\* a create of a tag with a name by an authenticated user was answered 405
\* when that user owned tags, all of them made by recipe writes
C9_Witness ==
    /\ last.endpoint = "tag"
    /\ last.op = "create"
    /\ last.caller \in UserIds
    /\ last.payload.name = "b"
    /\ last.status = HTTP_405_METHOD_NOT_ALLOWED
    /\ \E t \in tags : t.user = last.caller
    /\ ~\E t \in tags : t.name = "b"

\* C10 as stated: create_user with an empty email fails and leaves the users
\* as they were; with a non-empty email it adds exactly one user, whose
\* stored password verifies against the password given.
C10_CreateUser ==
    [][/\ last'.endpoint = "manager"
       /\ last'.op = "create_user"
       => IF last'.payload.email = EmptyEmail
          THEN last'.error # "" /\ users' = users
          ELSE /\ last'.error = ""
               /\ \E row \in users' :
                     /\ row \notin users
                     /\ users' = users \cup {row}
                     /\ check_password(last'.payload.password, row.password)
      ]_vars

\* the domain of an email: what follows its last "@"
Domain(email) == SubSeq(email, LastAt(email) + 1, Len(email))
\* the local part of an email, with the "@"
Local(email) == SubSeq(email, 1, LastAt(email))

\* e is email with its domain in lower case
IsNormalised(e, email) ==
    IF LastAt(email) = 0 THEN e = email
    ELSE /\ Len(e) = Len(email)
         /\ Local(e) = Local(email)
         /\ Domain(e) = [i \in 1..Len(Domain(email)) |-> Lower(Domain(email)[i])]

\* C10: create_user with an empty email fails with ValueError and leaves the
\* users as they were; with a non-empty email that, its domain in lower case,
\* is the email of an existing user, it fails with IntegrityError and leaves
\* the users as they were; with any other email it adds exactly one user,
\* whose email is the one given with its domain in lower case and whose stored
\* password verifies against the password given when one is given, and
\* against no password when none is.
C10_CreateUserChecked ==
    [][/\ last'.endpoint = "manager"
       /\ last'.op = "create_user"
       => LET email == last'.payload.email
              taken == \E u \in users : IsNormalised(u.email, email)
          IN  /\ email = EmptyEmail =>
                    last'.error = "ValueError" /\ users' = users
              /\ email # EmptyEmail /\ taken =>
                    last'.error = "IntegrityError" /\ users' = users
              /\ email # EmptyEmail /\ ~taken =>
                    /\ last'.error = ""
                    /\ \E row \in users' :
                          /\ row \notin users
                          /\ users' = users \cup {row}
                          /\ IsNormalised(row.email, email)
                          /\ check_password(last'.payload.password, row.password)
                                <=> last'.payload.password.given
                          /\ \A pw \in {NoPassword, ShortPassword, GoodPassword, OtherPassword} :
                                check_password(pw, row.password) =>
                                   pw = last'.payload.password
      ]_vars

\* create_user added a second user, given an email with an upper-case domain
\* and a password: the stored email has the domain in lower case and the
\* stored password verifies
C10_Witness ==
    /\ last.endpoint = "manager"
    /\ last.op = "create_user"
    /\ last.error = ""
    /\ last.payload.email = <<"a", "@", "X">>
    /\ last.payload.password = GoodPassword
    /\ Cardinality(users) >= 2
    /\ \E row \in users :
          /\ row.id = last.body[1]
          /\ row.email = <<"a", "@", "x">>
          /\ check_password(GoodPassword, row.password)

\* the ids of the tags or ingredients recipe rid is linked to in store s
LinkedTo(s, kind, rid) == {l[2] : l \in {k \in AttrLinks(s, kind) : k[1] = rid}}

\* C11: an update of a recipe that succeeds and supplies the list of a
\* relation leaves the recipe linked to exactly the caller's rows named in the
\* list, one for each name; a row linked before and not named is detached and
\* still exists, unchanged; an empty list leaves the recipe with no link; the
\* links of the other recipes are as they were.
C11_LinksReplaced ==
    [][/\ last'.endpoint = "recipe"
       /\ last'.op \in {"update", "partial_update"}
       /\ last'.status = HTTP_200_OK
       => \A kind \in Kinds :
             Supplies(last'.payload, kind) =>
                LET names == SeqRange(Embedded(last'.payload, kind))
                    rid == last'.target
                    after == AttrRows(Store', kind)
                IN  /\ LinkedTo(Store', kind, rid) =
                          {r.id : r \in {x \in after : x.user = last'.caller
                                                        /\ x.name \in names}}
                    /\ \A n \in names :
                          Cardinality(Matching(after, n, last'.caller)) = 1
                    /\ \A r \in AttrRows(Store, kind) :
                          r.id \in LinkedTo(Store, kind, rid) => r \in after
                    /\ names = {} => LinkedTo(Store', kind, rid) = {}
                    /\ \A l \in AttrLinks(Store, kind) \cup AttrLinks(Store', kind) :
                          l[1] # rid =>
                             (l \in AttrLinks(Store, kind) <=> l \in AttrLinks(Store', kind))
      ]_vars

\* a partial update with the tags list "b" was answered 200 on the only
\* recipe there has been, made with the tags "a" and "b": it is linked to the
\* tag "b" alone, and the tag "a" still exists
C11_Witness ==
    /\ last.endpoint = "recipe"
    /\ last.op = "partial_update"
    /\ last.status = HTTP_200_OK
    /\ last.payload.has = {"tags"}
    /\ last.payload.tags = <<"b">>
    /\ nextId.recipe = 2
    /\ writes = 2
    /\ \E a \in Matching(tags, "a", last.caller), b \in Matching(tags, "b", last.caller) :
          LinkedTo(Store, "tag", last.target) = {b.id}

\* every link joins a recipe that exists to a tag or ingredient that exists
NoDanglingLink ==
    \A kind \in Kinds :
       \A l \in AttrLinks(Store, kind) :
          /\ \E r \in recipes : r.id = l[1]
          /\ \E t \in AttrRows(Store, kind) : t.id = l[2]

\* C12: a delete of a tag or an ingredient that succeeds removes that row and
\* the links to it and nothing else: the recipes, the other rows and the other
\* links are as they were; and no link is ever left to a row that does not
\* exist.
C12_DeleteDetaches ==
    /\ []NoDanglingLink
    /\ [][\A kind \in Kinds :
             /\ last'.endpoint = kind
             /\ last'.op = "destroy"
             /\ last'.status = HTTP_204_NO_CONTENT
             => /\ \E row \in AttrRows(Store, kind) :
                      /\ row.id = last'.target
                      /\ row.user = last'.caller
                      /\ AttrRows(Store', kind) = AttrRows(Store, kind) \ {row}
                /\ AttrLinks(Store', kind) =
                      {l \in AttrLinks(Store, kind) : l[2] # last'.target}
                /\ recipes' = recipes
                /\ \A other \in Kinds \ {kind} :
                      /\ AttrRows(Store', other) = AttrRows(Store, other)
                      /\ AttrLinks(Store', other) = AttrLinks(Store, other)
         ]_vars

\* a tag was deleted right after the create of a recipe with two tags: the
\* recipe is there, linked to the other tag alone
C12_Witness ==
    /\ last.endpoint = "tag"
    /\ last.op = "destroy"
    /\ last.status = HTTP_204_NO_CONTENT
    /\ writes = 2
    /\ nextId.tag = 3
    /\ Cardinality(tags) = 1
    /\ \E r \in recipes :
          /\ Cardinality(LinkedTo(Store, "tag", r.id)) = 1
          /\ last.target \notin LinkedTo(Store, "tag", r.id)

\* the row of id i in a table
RowOf(rows, i) == CHOOSE r \in rows : r.id = i

\* C13: a list that succeeds answers with each row of the caller once and no
\* other row, and leaves the store as it was: the recipes by descending id,
\* the tags and the ingredients by descending name.
C13_ListScopedOrdered ==
    [][/\ last'.endpoint \in RecipeEndpoints
       /\ last'.op = "list"
       /\ last'.status = HTTP_200_OK
       => LET body == last'.body
              rows == Rows(Store, last'.endpoint)
          IN  /\ Store' = Store
              /\ SeqRange(body) = {r.id : r \in {x \in rows : x.user = last'.caller}}
              /\ \A i, j \in DOMAIN body : i # j => body[i] # body[j]
              /\ \A i, j \in DOMAIN body :
                    i < j =>
                       IF last'.endpoint = "recipe" THEN body[i] > body[j]
                       ELSE NameRank(RowOf(rows, body[i]).name)
                               >= NameRank(RowOf(rows, body[j]).name)
      ]_vars

\* a list of tags answered with the caller's two tags, "b" before "a", when
\* the other user had a tag too
C13_Witness ==
    /\ last.endpoint = "tag"
    /\ last.op = "list"
    /\ last.status = HTTP_200_OK
    /\ Len(last.body) = 2
    /\ RowOf(tags, last.body[1]).name = "b"
    /\ RowOf(tags, last.body[2]).name = "a"
    /\ \E t \in tags : t.user \in UserIds \ {last.caller}

\* the step is the one that ends the request of user u
Answers(u) == inflight[u].pc = "commit" /\ inflight'[u].pc = "idle"

\* a step changes rows or links of user u only when it ends a request of u
OnlyOwnRequestWrites(u) == Mine(Store', u) # Mine(Store, u) => Answers(u)

\* C14 as stated: whatever steps of another user's request come between the
\* steps of a request of user u, u receives the response, and u's rows and
\* links end in the state, that the request gives when it runs alone; and
\* no step of another user's request changes a row or a link of u.
C14_Independent ==
    [][\A u \in UserIds :
          /\ Answers(u) =>
                /\ last'.status = inflight[u].solo.status
                /\ last'.body = inflight[u].solo.body
                /\ Mine(Store', u) = inflight[u].solo.mine
          /\ OnlyOwnRequestWrites(u)
      ]_vars

\* the place of id i among the ids of a set, in ascending order
Rank(ids, i) == Cardinality({j \in ids : j <= i})

\* rows and links m with each id replaced by its place among the ids of its
\* table
UpToIds(m) ==
    LET rank(f, i) == Rank({r.id : r \in m[f]}, i)
        rows(f) == {[r EXCEPT !.id = rank(f, r.id)] : r \in m[f]}
        links(f, g) == {<<rank("recipes", l[1]), rank(g, l[2])>> : l \in m[f]}
    IN  [recipes |-> rows("recipes"), tags |-> rows("tags"),
         ingredients |-> rows("ingredients"),
         recipe_tags |-> links("recipe_tags", "tags"),
         recipe_ingredients |-> links("recipe_ingredients", "ingredients")]

\* a response body, a sequence of ids of rows of m, with each id replaced by
\* its place among the ids of the endpoint's table
BodyUpToIds(body, m, endpoint) ==
    [k \in 1..Len(body) |-> Rank(IdsOf(m, endpoint), body[k])]

\* C14: whatever steps of another user's request come between the steps of
\* a request of user u, u receives the status, and u's rows and links end in
\* the state, that the request gives when it runs alone, up to the ids of
\* rows: ids come from sequences the users share, so the id of a row the
\* request inserts depends on the inserts of other users, while the contents
\* of u's rows, their links, the order of their ids and the rows the request
\* leaves untouched are the same; and no step of another user's request
\* changes a row or a link of u.
C14_IndependentUpToIds ==
    [][\A u \in UserIds :
          /\ Answers(u) =>
                LET solo == inflight[u].solo
                    before == Mine(Store, u)
                    after == Mine(Store', u)
                IN  /\ last'.status = solo.status
                    /\ BodyUpToIds(last'.body, after, last'.endpoint)
                          = BodyUpToIds(solo.body, solo.mine, last'.endpoint)
                    /\ UpToIds(after) = UpToIds(solo.mine)
                    /\ \A f \in DOMAIN NoTables :
                          after[f] \cap before[f] = solo.mine[f] \cap before[f]
          /\ OnlyOwnRequestWrites(u)
      ]_vars

\* user 1 was answered 201 for a create whose steps came between those of a
\* create of user 2 that has inserted its recipe and has not committed: the
\* recipe of user 1 has the second id of the sequence, not the first
C14_Witness ==
    /\ last.endpoint = "recipe"
    /\ last.op = "create"
    /\ last.caller = 1
    /\ last.status = HTTP_201_CREATED
    /\ last.body = <<2>>
    /\ \E r \in recipes : r.id = 2 /\ r.user = 1
    /\ inflight[2].op = "create"
    /\ inflight[2].pc \in {"resolve", "commit"}
    /\ inflight[2].rid = 1

====
